---- MODULE Spec2Model ----
(***************************************************************************)
(* The CRUD backend of src/main.py and src/schemas.py: three document      *)
(* collections (event, course, timetable) behind twelve HTTP handlers.     *)
(* A handler that issues several store operations is one action per store  *)
(* operation, so that requests of different callers interleave exactly     *)
(* where the host server lets them: between two round trips to the store.  *)
(***************************************************************************)
EXTENDS Integers, Sequences, FiniteSets, TLC

\* ------------------------------------------------------------------ bounds
NumWorkers == 2
MaxRequests == 2
MaxSet == 1
MaxTime == 1
MaxOid == 4

Workers == 1..NumWorkers

\* ------------------------------------------------------------------ values
\* A JSON/BSON value is a tagged tuple, so that values of different Python
\* types are comparable and never equal.
Null == <<"null">>
Text(s) == <<"str", s>>
Num(n) == <<"int", n>>
Date(n) == <<"date", n>>
DateTime(n) == <<"datetime", n>>
Oid(n) == <<"oid", n>>

IsText(v) == v[1] = "str"
IsNum(v) == v[1] = "int"

\* ------------------------------------------------------------------ schemas.py
Semester == {"Fall", "Spring", "Summer"}
DayOfWeek == {"Monday", "Tuesday", "Wednesday", "Thursday", "Friday", "Saturday"}

YearMin == 2000
YearMax == 2100
CreditsMin == 0
CreditsMax == 30

OptStr(v) == v = Null \/ IsText(v)

EventFields == {"title", "description", "date", "time", "location", "audience", "link"}
CourseFields == {"code", "title", "semester", "year", "lecturer", "credits", "description"}
TimetableFields == {"semester", "year", "day", "start_time", "end_time", "course_code",
                    "venue", "lecturer", "notes"}

Collections == {"event", "course", "timetable"}

Fields(coll) ==
    CASE coll = "event" -> EventFields
      [] coll = "course" -> CourseFields
      [] coll = "timetable" -> TimetableFields

YearOk(v) == IsNum(v) /\ v[2] >= YearMin /\ v[2] <= YearMax
CreditsOk(v) == v = Null \/ (IsNum(v) /\ v[2] >= CreditsMin /\ v[2] <= CreditsMax)
SemesterOk(v) == IsText(v) /\ v[2] \in Semester
DayOk(v) == IsText(v) /\ v[2] \in DayOfWeek

Event(p) ==
    /\ IsText(p["title"])
    /\ p["date"][1] = "date"
    /\ \A f \in {"description", "time", "location", "audience", "link"} : OptStr(p[f])

Course(p) ==
    /\ IsText(p["code"])
    /\ IsText(p["title"])
    /\ SemesterOk(p["semester"])
    /\ YearOk(p["year"])
    /\ CreditsOk(p["credits"])
    /\ OptStr(p["lecturer"])
    /\ OptStr(p["description"])

Timetable(p) ==
    /\ SemesterOk(p["semester"])
    /\ YearOk(p["year"])
    /\ DayOk(p["day"])
    /\ IsText(p["start_time"])
    /\ IsText(p["end_time"])
    /\ IsText(p["course_code"])
    /\ \A f \in {"venue", "lecturer", "notes"} : OptStr(p[f])

\* The request-body validation FastAPI runs before a create handler is entered.
Validates(coll, p) ==
    CASE coll = "event" -> Event(p)
      [] coll = "course" -> Course(p)
      [] coll = "timetable" -> Timetable(p)

\* ------------------------------------------------------------------ ObjectId
OidLen == 24
HexLower == <<"0", "1", "2", "3", "4", "5", "6", "7", "8", "9", "a", "b", "c", "d", "e", "f">>
HexUpper == <<"0", "1", "2", "3", "4", "5", "6", "7", "8", "9", "A", "B", "C", "D", "E", "F">>
HexChars == {HexLower[i] : i \in 1..16} \cup {HexUpper[i] : i \in 1..16}

IsHex(ch) == ch \in HexChars
HexVal(ch) == (CHOOSE i \in 1..16 : HexLower[i] = ch \/ HexUpper[i] = ch) - 1

RECURSIVE ParseHex(_, _, _)
ParseHex(s, i, acc) ==
    IF i > Len(s) THEN acc ELSE ParseHex(s, i + 1, acc * 16 + HexVal(s[i]))

\* Mutant of ObjectId: the length of the text is not checked.
ObjectIdAnyLength(s) ==
    IF \A i \in 1..Len(s) : IsHex(s[i]) THEN Oid(ParseHex(s, 1, 0)) ELSE Null

\* ObjectId(text): the parsed identifier, or Null where the constructor raises.
ObjectId(s) ==
    IF Len(s) = OidLen /\ \A i \in 1..Len(s) : IsHex(s[i])
    THEN Oid(ParseHex(s, 1, 0))
    ELSE Null

RECURSIVE Pow16(_)
Pow16(k) == IF k = 0 THEN 1 ELSE 16 * Pow16(k - 1)

\* str(ObjectId): 24 lower-case hexadecimal digits (identifiers below 16^6).
OidStr(oid) ==
    [i \in 1..OidLen |->
        IF OidLen - i >= 6 THEN "0"
        ELSE HexLower[((oid[2] \div Pow16(OidLen - i)) % 16) + 1]]

\* ------------------------------------------------------------------ inputs
WellFormedIds == {OidStr(Oid(n)) : n \in 1..MaxOid}
TooShortId == [i \in 1..(OidLen - 1) |-> "0"]
NotHexId == [i \in 1..OidLen |-> IF i = OidLen THEN "g" ELSE "0"]
MalformedIds == {TooShortId, NotHexId}
PathIds == WellFormedIds \cup MalformedIds

EventBase ==
    [title |-> Text("a"), description |-> Null, date |-> Date(1), time |-> Null,
     location |-> Text("a"), audience |-> Null, link |-> Null]
CourseBase ==
    [code |-> Text("a"), title |-> Text("a"), semester |-> Text("Fall"), year |-> Num(YearMin),
     lecturer |-> Null, credits |-> Num(3), description |-> Null]
TimetableBase ==
    [semester |-> Text("Fall"), year |-> Num(YearMin), day |-> Text("Monday"),
     start_time |-> Text("a"), end_time |-> Text("a"), course_code |-> Text("a"),
     venue |-> Null, lecturer |-> Null, notes |-> Null]

CreatePayloads(coll) ==
    CASE coll = "event" ->
            {EventBase, [EventBase EXCEPT !["title"] = Null]}
      [] coll = "course" ->
            {CourseBase,
             [CourseBase EXCEPT !["year"] = Num(YearMax)],
             [CourseBase EXCEPT !["year"] = Num(YearMin - 1)],
             [CourseBase EXCEPT !["year"] = Num(YearMax + 1)],
             [CourseBase EXCEPT !["semester"] = Text("Winter")],
             [CourseBase EXCEPT !["credits"] = Num(CreditsMax + 1)]}
      [] coll = "timetable" ->
            {TimetableBase,
             [TimetableBase EXCEPT !["year"] = Num(YearMax + 1)],
             [TimetableBase EXCEPT !["semester"] = Text("Winter")],
             [TimetableBase EXCEPT !["day"] = Text("Sunday")]}

\* The values a client may put in one field of an update body; the update
\* models type semester and day as plain strings and year and credits as
\* plain integers.
UpdateValues(f) ==
    CASE f = "semester" -> {Text("Winter")}
      [] f = "day" -> {Text("Tuesday")}
      [] f = "year" -> {Num(YearMax), Num(YearMax + 1)}
      [] f = "credits" -> {Num(CreditsMax + 1)}
      [] OTHER -> {Text("b")}

AllNull(coll) == [f \in Fields(coll) |-> Null]

RECURSIVE PayloadsUpTo(_, _)
PayloadsUpTo(coll, k) ==
    IF k = 0 THEN {AllNull(coll)}
    ELSE LET prev == PayloadsUpTo(coll, k - 1)
         IN prev \cup UNION {UNION {{[p EXCEPT ![f] = v] : v \in UpdateValues(f)}
                                     : f \in Fields(coll)} : p \in prev}

EventUpdates == PayloadsUpTo("event", MaxSet)
CourseUpdates == PayloadsUpTo("course", MaxSet)
TimetableUpdates == PayloadsUpTo("timetable", MaxSet)

UpdatePayloads(coll) ==
    CASE coll = "event" -> EventUpdates
      [] coll = "course" -> CourseUpdates
      [] coll = "timetable" -> TimetableUpdates

SemesterArgs == {Null, Text(""), Text("Fall")}
YearArgs == {Null, Num(YearMax)}
DayArgs == {Null, Text(""), Text("Tuesday")}
LimitArgs == {Null, Num(1)}

\* ------------------------------------------------------------------ state
VARIABLES db, store, nextOid, inflight, last, nreq

vars == <<db, store, nextOid, inflight, last, nreq>>

Idle == [pc |-> "idle"]
NoResponse == [op |-> "none"]

\* ------------------------------------------------------------------ helpers
\* Python truthiness of an Optional[str] query argument.
Truthy(v) == v # Null /\ v # Text("")

IsoFormat(v) ==
    IF v[1] = "date" THEN Text("2025-03-0" \o ToString(v[2]))
    ELSE Text("2025-03-01T00:00:0" \o ToString(v[2]))

HasIsoFormat(v) == v[1] \in {"date", "datetime"}

serialize_doc(doc) ==
    IF doc = Null THEN Null
    ELSE LET keys == (DOMAIN doc \ {"_id"}) \cup (IF "_id" \in DOMAIN doc THEN {"id"} ELSE {})
         IN [k \in keys |->
                IF k = "id" /\ "_id" \in DOMAIN doc THEN Text(OidStr(doc["_id"]))
                ELSE IF HasIsoFormat(doc[k]) THEN IsoFormat(doc[k])
                ELSE doc[k]]

\* ------------------------------------------------------------------ the store
Matches(doc, query) == \A k \in DOMAIN query : k \in DOMAIN doc /\ doc[k] = query[k]

Find(docs, query) == SelectSeq(docs, LAMBDA d : Matches(d, query))

find_one(docs, oid) ==
    LET found == Find(docs, [k \in {"_id"} |-> oid])
    IN IF found = <<>> THEN Null ELSE Head(found)

matched_count(docs, oid) == IF find_one(docs, oid) = Null THEN 0 ELSE 1

\* Mutant of SetFields: the record is replaced by the update instead of $set.
SetFieldsReplace(doc, data) ==
    [k \in DOMAIN data \cup {"_id"} |-> IF k \in DOMAIN data THEN data[k] ELSE doc[k]]

SetFields(doc, data) ==
    [k \in DOMAIN doc \cup DOMAIN data |-> IF k \in DOMAIN data THEN data[k] ELSE doc[k]]

FirstIndex(docs, oid) == CHOOSE i \in 1..Len(docs) :
    /\ docs[i]["_id"] = oid
    /\ \A j \in 1..(i - 1) : docs[j]["_id"] # oid

\* Mutant of update_one: upsert, a record is inserted when none matches.
update_one_upsert(docs, oid, data) ==
    IF matched_count(docs, oid) = 0
    THEN Append(docs, [k \in DOMAIN data \cup {"_id"} |-> IF k = "_id" THEN oid ELSE data[k]])
    ELSE [docs EXCEPT ![FirstIndex(docs, oid)] = SetFields(@, data)]

update_one(docs, oid, data) ==
    IF matched_count(docs, oid) = 0 THEN docs
    ELSE [docs EXCEPT ![FirstIndex(docs, oid)] = SetFields(@, data)]

delete_one(docs, oid) ==
    IF matched_count(docs, oid) = 0 THEN docs
    ELSE LET i == FirstIndex(docs, oid)
         IN SubSeq(docs, 1, i - 1) \o SubSeq(docs, i + 1, Len(docs))

\* Mutant of NotFound: the count is compared with the wrong bound.
NotFoundNever(count) == count < 0

\* res.matched_count == 0, res.deleted_count == 0
NotFound(count) == count = 0

\* database.py
get_documents(docs, query, limit) ==
    LET found == Find(docs, query)
    IN IF limit # Null /\ limit[2] < Len(found) THEN SubSeq(found, 1, limit[2]) ELSE found

create_document(docs, payload, oid) ==
    Append(docs, [k \in DOMAIN payload \cup {"_id"} |-> IF k = "_id" THEN oid ELSE payload[k]])

\* The database outlives the process: at start-up the collections are empty
\* or hold what earlier requests created (one record each, identifiers 1..3).
SeededStore ==
    [coll \in Collections |->
        CASE coll = "event" -> create_document(<<>>, EventBase, Oid(1))
          [] coll = "course" -> create_document(<<>>, CourseBase, Oid(2))
          [] coll = "timetable" -> create_document(<<>>, TimetableBase, Oid(3))]


EmptyStore == [coll \in Collections |-> <<>>]

Init ==
    /\ \/ db = FALSE /\ store = EmptyStore
       \/ db = TRUE /\ store \in {EmptyStore, SeededStore}
    /\ nextOid = 4
    /\ inflight = [w \in Workers |-> Idle]
    /\ last = NoResponse
    /\ nreq = 0

\* ------------------------------------------------------------------ responses
Response(op, coll, args, status, body, ops) ==
    [op |-> op, coll |-> coll, args |-> args, status |-> status, body |-> body, ops |-> ops]

Detail(text) == [detail |-> Text(text)]

DbUnavailable == Detail("Database not available")

\* ------------------------------------------------------------------ handlers
\* The host server runs each request on a free thread of its pool; the
\* threads are interchangeable, so a request takes the lowest free one.
FreeWorker == CHOOSE w \in Workers : inflight[w] = Idle /\ \A v \in 1..(w - 1) : inflight[v] # Idle

\* Passes (TRUE) when the process-wide store handle is not None.
ensure_db_available == db

Begin ==
    /\ \E w \in Workers : inflight[w] = Idle
    /\ nreq < MaxRequests
    /\ nreq' = nreq + 1

\* Mutant of Query: the year is left out of the filter.
QueryNoYear(semester, year, day) ==
    LET keys == (IF Truthy(semester) THEN {"semester"} ELSE {})
                \cup (IF Truthy(day) THEN {"day"} ELSE {})
    IN [k \in keys |-> CASE k = "semester" -> semester
                         [] k = "day" -> day]

Query(semester, year, day) ==
    LET keys == (IF Truthy(semester) THEN {"semester"} ELSE {})
                \cup (IF year # Null THEN {"year"} ELSE {})
                \cup (IF Truthy(day) THEN {"day"} ELSE {})
    IN [k \in keys |-> CASE k = "semester" -> semester
                         [] k = "year" -> year
                         [] k = "day" -> day]

ListArgs(semester, year, day, limit) ==
    [semester |-> semester, year |-> year, day |-> day, limit |-> limit]

List(coll, semester, year, day, limit) ==
    /\ Begin
    /\ last' = IF ~ensure_db_available
               THEN Response("list", coll, ListArgs(semester, year, day, limit),
                             500, DbUnavailable, 0)
               ELSE LET docs == get_documents(store[coll], Query(semester, year, day), limit)
                    IN Response("list", coll, ListArgs(semester, year, day, limit),
                                200, [i \in 1..Len(docs) |-> serialize_doc(docs[i])], 1)
    /\ UNCHANGED <<db, store, nextOid, inflight>>

CreateInsert(coll) ==
    \E payload \in CreatePayloads(coll) :
        /\ Begin
        /\ IF ~Validates(coll, payload)
           THEN /\ last' = Response("create", coll, [payload |-> payload],
                                    422, Detail("validation error"), 0)
                /\ UNCHANGED <<store, nextOid, inflight>>
           ELSE IF ~ensure_db_available
           THEN /\ last' = Response("create", coll, [payload |-> payload],
                                    500, DbUnavailable, 0)
                /\ UNCHANGED <<store, nextOid, inflight>>
           ELSE /\ store' = [store EXCEPT ![coll] = create_document(@, payload, Oid(nextOid))]
                /\ nextOid' = nextOid + 1
                /\ inflight' = [inflight EXCEPT ![FreeWorker] =
                        [pc |-> "inserted", coll |-> coll, payload |-> payload,
                         new_id |-> OidStr(Oid(nextOid)), ops |-> 1]]
                /\ last' = NoResponse
        /\ UNCHANGED db

CreateReadBack(w, coll) ==
    /\ inflight[w].pc = "inserted"
    /\ inflight[w].coll = coll
    /\ LET r == inflight[w]
           doc == find_one(store[coll], ObjectId(r.new_id))
       IN last' = Response("create", coll, [payload |-> r.payload, new_id |-> r.new_id],
                           200, serialize_doc(doc), r.ops + 1)
    /\ inflight' = [inflight EXCEPT ![w] = Idle]
    /\ UNCHANGED <<db, store, nextOid, nreq>>

\* Mutant of NonNull: the None values are kept.
KeepAll(payload) == payload

NonNull(payload) == [k \in {f \in DOMAIN payload : payload[f] # Null} |-> payload[k]]

\* db.command("isMaster").get("localTime"): the store server's clock.
localTime(t) == DateTime(t)

WithUpdatedAt(update_data, time) ==
    [k \in DOMAIN update_data \cup {"updated_at"} |->
        IF k = "updated_at" THEN time ELSE update_data[k]]

UpdateStamp(coll) ==
    \E id \in PathIds, payload \in UpdatePayloads(coll) :
        LET args == [id |-> id, payload |-> payload]
            oid == ObjectId(id)
            update_data == NonNull(payload)
        IN /\ Begin
           /\ IF ~ensure_db_available
              THEN /\ last' = Response("update", coll, args, 500, DbUnavailable, 0)
                   /\ UNCHANGED inflight
              ELSE IF oid = Null
              THEN /\ last' = Response("update", coll, args, 400,
                                       Detail("Invalid id"), 0)
                   /\ UNCHANGED inflight
              ELSE IF DOMAIN update_data = {}
              THEN /\ last' = Response("update", coll, args, 400,
                                       Detail("No fields to update"), 0)
                   /\ UNCHANGED inflight
              ELSE \E t \in 1..MaxTime :
                   /\ inflight' = [inflight EXCEPT ![FreeWorker] =
                        [pc |-> "stamped", coll |-> coll, args |-> args,
                         oid |-> oid, ops |-> 1,
                         update_data |-> WithUpdatedAt(update_data, localTime(t))]]
                   /\ last' = NoResponse
           /\ UNCHANGED <<db, store, nextOid>>

UpdateApply(w, coll) ==
    /\ inflight[w].pc = "stamped"
    /\ inflight[w].coll = coll
    /\ LET r == inflight[w]
       IN /\ store' = [store EXCEPT ![coll] = update_one(@, r.oid, r.update_data)]
          /\ IF NotFound(matched_count(store[coll], r.oid))
             THEN /\ last' = Response("update", coll, r.args, 404,
                                      Detail("not found"), r.ops + 1)
                  /\ inflight' = [inflight EXCEPT ![w] = Idle]
             ELSE /\ inflight' = [inflight EXCEPT ![w] =
                                    [r EXCEPT !.pc = "updated", !.ops = r.ops + 1]]
                  /\ last' = NoResponse
    /\ UNCHANGED <<db, nextOid, nreq>>

UpdateReadBack(w, coll) ==
    /\ inflight[w].pc = "updated"
    /\ inflight[w].coll = coll
    /\ LET r == inflight[w]
           doc == find_one(store[coll], r.oid)
       IN last' = Response("update", coll, r.args, 200, serialize_doc(doc), r.ops + 1)
    /\ inflight' = [inflight EXCEPT ![w] = Idle]
    /\ UNCHANGED <<db, store, nextOid, nreq>>

\* Mutant of Delete: the record is looked up before it is deleted.
DeleteAfterLookup(coll) ==
    \E id \in PathIds :
        LET args == [id |-> id]
            oid == ObjectId(id)
        IN /\ Begin
           /\ IF ~ensure_db_available
              THEN /\ last' = Response("delete", coll, args, 500, DbUnavailable, 0)
                   /\ UNCHANGED store
              ELSE IF oid = Null
              THEN /\ last' = Response("delete", coll, args, 400,
                                       Detail("Invalid id"), 0)
                   /\ UNCHANGED store
              ELSE /\ store' = [store EXCEPT ![coll] = delete_one(@, oid)]
                   /\ last' = IF find_one(store[coll], oid) = Null
                              THEN Response("delete", coll, args, 404,
                                            Detail("not found"), 1)
                              ELSE Response("delete", coll, args, 200,
                                            [success |-> TRUE], 2)
           /\ UNCHANGED <<db, nextOid, inflight>>

Delete(coll) ==
    \E id \in PathIds :
        LET args == [id |-> id]
            oid == ObjectId(id)
        IN /\ Begin
           /\ IF ~ensure_db_available
              THEN /\ last' = Response("delete", coll, args, 500, DbUnavailable, 0)
                   /\ UNCHANGED store
              ELSE IF oid = Null
              THEN /\ last' = Response("delete", coll, args, 400,
                                       Detail("Invalid id"), 0)
                   /\ UNCHANGED store
              ELSE /\ store' = [store EXCEPT ![coll] = delete_one(@, oid)]
                   /\ last' = IF NotFound(matched_count(store[coll], oid))
                              THEN Response("delete", coll, args, 404,
                                            Detail("not found"), 1)
                              ELSE Response("delete", coll, args, 200,
                                            [success |-> TRUE], 1)
           /\ UNCHANGED <<db, nextOid, inflight>>

\* ---- events
list_events == \E limit \in LimitArgs : List("event", Null, Null, Null, limit)
create_event == CreateInsert("event") \/ \E w \in Workers : CreateReadBack(w, "event")
update_event ==
    \/ UpdateStamp("event")
    \/ \E w \in Workers : UpdateApply(w, "event") \/ UpdateReadBack(w, "event")
delete_event == Delete("event")

\* ---- courses
list_courses ==
    \E semester \in SemesterArgs, year \in YearArgs, limit \in LimitArgs :
        List("course", semester, year, Null, limit)
create_course == CreateInsert("course") \/ \E w \in Workers : CreateReadBack(w, "course")
update_course ==
    \/ UpdateStamp("course")
    \/ \E w \in Workers : UpdateApply(w, "course") \/ UpdateReadBack(w, "course")
delete_course == Delete("course")

\* ---- timetable
list_timetable ==
    \E semester \in SemesterArgs, year \in YearArgs, day \in DayArgs, limit \in LimitArgs :
        List("timetable", semester, year, day, limit)
create_timetable ==
    CreateInsert("timetable") \/ \E w \in Workers : CreateReadBack(w, "timetable")
update_timetable ==
    \/ UpdateStamp("timetable")
    \/ \E w \in Workers : UpdateApply(w, "timetable") \/ UpdateReadBack(w, "timetable")
delete_timetable == Delete("timetable")

Next ==
    \/ list_events
    \/ create_event
    \/ update_event
    \/ delete_event
    \/ list_courses
    \/ create_course
    \/ update_course
    \/ delete_course
    \/ list_timetable
    \/ create_timetable
    \/ update_timetable
    \/ delete_timetable

Spec == Init /\ [][Next]_vars

\* ------------------------------------------------------------------ properties
\* `last` is the response the latest step sent (NoResponse when the step sent
\* none), so a step that sends a response is recognised by last' # NoResponse.
SetCount(payload) == Cardinality({f \in DOMAIN payload : payload[f] # Null})

IdsOf(docs) == [i \in 1..Len(docs) |-> docs[i]["_id"]]

Present(docs, id) == \E i \in 1..Len(docs) : OidStr(docs[i]["_id"]) = id

\* The step in which worker w's update_one matched a record.
Applied(w) == inflight[w].pc = "stamped" /\ inflight'[w].pc = "updated"

\* A request answered by the step that began it.
AnsweredAtOnce(op) == nreq' = nreq + 1 /\ last' # NoResponse /\ last'.op = op

\* C1: an update whose payload has exactly one non-null field X changes, in
\* the record it matches, only X and updated_at (which it sets); every other
\* field, the identifier included, and every other record keep their values.
C1_SingleFieldFrame ==
    [][\A w \in Workers :
        (Applied(w) /\ SetCount(inflight[w].args.payload) = 1) =>
            LET r == inflight[w]
                X == CHOOSE f \in DOMAIN r.args.payload : r.args.payload[f] # Null
                old == store[r.coll]
                new == store'[r.coll]
            IN /\ \A coll \in Collections \ {r.coll} : store'[coll] = store[coll]
               /\ Len(new) = Len(old)
               /\ \A i \in 1..Len(old) :
                    IF old[i]["_id"] = r.oid
                    THEN /\ DOMAIN new[i] = DOMAIN old[i] \cup {X, "updated_at"}
                         /\ \A k \in DOMAIN old[i] \ {X, "updated_at"} : new[i][k] = old[i][k]
                         /\ new[i][X] = r.args.payload[X]
                         /\ new[i]["updated_at"][1] = "datetime"
                    ELSE new[i] = old[i]]_vars

C1_Witness ==
    \E w \in Workers :
        /\ inflight[w].pc = "updated"
        /\ inflight[w].coll = "event"
        /\ SetCount(inflight[w].args.payload) = 1
        /\ \E i \in 1..Len(store[inflight[w].coll]) :
            LET doc == store[inflight[w].coll][i]
            IN /\ doc["_id"] = inflight[w].oid
               /\ "updated_at" \in DOMAIN doc
               /\ doc["location"] = Text("b")
               /\ doc["title"] = Text("a")

\* C2 as stated: update and delete with a malformed identifier answer 400
\* and issue no store operation, also when the store handle is absent.
C2_Original ==
    (last.op \in {"update", "delete"} /\ last.args.id \in MalformedIds)
        => (last.status = 400 /\ last.ops = 0)

\* C2: update and delete with a malformed identifier issue no operation to
\* the store, whatever the payload and the state of the store; they answer
\* 400 when the store handle is present and 500 when it is absent.
C2_MalformedNeverReachesStore ==
    (last.op \in {"update", "delete"} /\ last.args.id \in MalformedIds)
        => (last.ops = 0 /\ last.status = IF db THEN 400 ELSE 500)

C2_Witness ==
    /\ last.op = "update"
    /\ last.args.id = NotHexId
    /\ SetCount(last.args.payload) = 1
    /\ last.status = 400
    /\ store = SeededStore

\* A delete of a well-formed identifier that no record carries answers 404
\* and leaves the store as it was.
AbsentDelete ==
    (AnsweredAtOnce("delete") /\ db /\ last'.args.id \in WellFormedIds
        /\ ~Present(store[last'.coll], last'.args.id))
        => (last'.status = 404 /\ store' = store)

\* An update_one that finds no record with the identifier answers 404 and
\* leaves the store as it was.
AbsentUpdateApply ==
    \A w \in Workers :
        (inflight[w].pc = "stamped" /\ inflight'[w] # inflight[w]
            /\ ~Present(store[inflight[w].coll], inflight[w].args.id))
            => (last' # NoResponse /\ last'.status = 404 /\ last'.args = inflight[w].args
                /\ store' = store)

\* C3 as stated: with any payload, the all-null one included.
C3_Original ==
    [][/\ AbsentDelete
       /\ AbsentUpdateApply
       /\ (AnsweredAtOnce("update") /\ db /\ last'.args.id \in WellFormedIds
            /\ ~Present(store[last'.coll], last'.args.id))
            => (last'.status = 404 /\ store' = store)]_vars

\* C3: with the store available, a delete, and an update with at least one
\* non-null field, of a well-formed identifier that is not in the collection
\* answer 404 and leave the collection unchanged; such an update is never
\* answered before its update_one has run.
C3_AbsentIsNotFound ==
    [][/\ AbsentDelete
       /\ AbsentUpdateApply
       /\ (AnsweredAtOnce("update") /\ db /\ last'.args.id \in WellFormedIds)
            => SetCount(last'.args.payload) = 0]_vars

C3_Witness ==
    /\ last.op = "update"
    /\ last.status = 404
    /\ last.args.id \in WellFormedIds
    /\ SetCount(last.args.payload) = 1
    /\ ~Present(store[last.coll], last.args.id)
    /\ store = SeededStore

\* C4: with the store available, an update whose payload has no non-null
\* field is answered 400 by the step that begins it, which changes no record
\* and stamps no updated_at; no such update ever reaches the store.
C4_EmptyUpdateRejected ==
    [][/\ (AnsweredAtOnce("update") /\ db /\ SetCount(last'.args.payload) = 0)
            => (last'.status = 400 /\ last'.ops = 0 /\ store' = store)
       /\ \A w \in Workers :
            inflight'[w].pc \in {"stamped", "updated"}
                => SetCount(inflight'[w].args.payload) > 0]_vars

C4_Witness ==
    /\ last.op = "update"
    /\ SetCount(last.args.payload) = 0
    /\ last.status = 400
    /\ last.body = Detail("No fields to update")
    /\ store = SeededStore
    /\ Present(store[last.coll], last.args.id)

\* C5 as stated: list, update and delete issue at most one store operation,
\* a create that succeeds exactly two.
C5_Original ==
    last # NoResponse =>
        /\ last.op \in {"list", "update", "delete"} => last.ops <= 1
        /\ (last.op = "create" /\ last.status = 200) => last.ops = 2

\* C5: list and delete issue at most one store operation; a create issues
\* two (insert, read-back) when its insert succeeds and none otherwise; an
\* update issues none when it is rejected (400, 500), two when no record
\* matches (server time, update_one) and three when it succeeds (server
\* time, update_one, read-back).
C5_RoundTrips ==
    last # NoResponse =>
        /\ last.op \in {"list", "delete"} => last.ops = (IF last.status \in {200, 404} THEN 1 ELSE 0)
        /\ last.op = "create" => last.ops = (IF last.status = 200 THEN 2 ELSE 0)
        /\ last.op = "update" =>
            last.ops = (CASE last.status = 200 -> 3
                          [] last.status = 404 -> 2
                          [] OTHER -> 0)

C5_Witness == last.op = "update" /\ last.status = 200 /\ last.ops = 3 /\ last.body # Null

\* C6: a create whose insert succeeded answers with the serialized new
\* record, identifier included, whatever other requests run meanwhile.
C6_CreateReturnsRecord ==
    (last.op = "create" /\ last.status = 200)
        => /\ last.body # Null
           /\ last.body["id"] = Text(last.args.new_id)
           /\ \A f \in DOMAIN last.args.payload :
                last.body[f] = (IF HasIsoFormat(last.args.payload[f])
                                THEN IsoFormat(last.args.payload[f])
                                ELSE last.args.payload[f])

\* C7: an update with a well-formed identifier and at least one non-null
\* field answers 404 or answers with the updated serialized record: id, the
\* applied fields and updated_at.
C7_UpdateReturnsRecord ==
    (last.op = "update" /\ db /\ last.args.id \in WellFormedIds
        /\ SetCount(last.args.payload) > 0)
        => \/ last.status = 404
           \/ /\ last.status = 200
              /\ last.body # Null
              /\ last.body["id"] = Text(last.args.id)
              /\ "updated_at" \in DOMAIN last.body
              /\ \A f \in DOMAIN last.args.payload :
                    last.args.payload[f] # Null => last.body[f] = last.args.payload[f]

\* The records a listing is to return: those equal to the argument on every
\* field for which Supplied holds, in insertion order, cut to limit.
Expected(docs, args, Supplied(_)) ==
    LET hit == SelectSeq(docs, LAMBDA d :
                    \A k \in {"semester", "year", "day"} :
                        Supplied(args[k]) => (k \in DOMAIN d /\ d[k] = args[k]))
        cut == IF args.limit # Null /\ args.limit[2] < Len(hit)
               THEN SubSeq(hit, 1, args.limit[2]) ELSE hit
    IN [i \in 1..Len(cut) |-> serialize_doc(cut[i])]

GivenArg(v) == v # Null
GivenNonEmpty(v) == v # Null /\ v # Text("")

Distinct(ids) == \A i, j \in 1..Len(ids) : i # j => ids[i] # ids[j]

Without(ids, i) == SubSeq(ids, 1, i - 1) \o SubSeq(ids, i + 1, Len(ids))

\* C9: the records of a collection carry pairwise distinct identifiers, each
\* issued before now; a step leaves the identifiers of a collection as they
\* are, position by position, or appends the one never-issued identifier, or
\* removes one; identifiers are issued in increasing order, so none returns.
C9_IdentifiersStable ==
    /\ [](\A coll \in Collections :
            /\ Distinct(IdsOf(store[coll]))
            /\ \A i \in 1..Len(store[coll]) : store[coll][i]["_id"][2] < nextOid)
    /\ [][/\ nextOid' >= nextOid
          /\ \A coll \in Collections :
                LET ids == IdsOf(store[coll])
                    ids2 == IdsOf(store'[coll])
                IN \/ ids2 = ids
                   \/ ids2 = Append(ids, Oid(nextOid)) /\ nextOid' = nextOid + 1
                   \/ \E i \in 1..Len(ids) : ids2 = Without(ids, i)]_vars

C9_Witness ==
    /\ nextOid > 4
    /\ \E coll \in Collections :
        /\ Len(store[coll]) = 2
        /\ "updated_at" \in DOMAIN store[coll][1]
        /\ store[coll][2]["_id"] = Oid(4)

\* C10: every stored course and timetable record satisfies the range and
\* enumeration constraints of its schema.
C10_StoredRecordsValid ==
    /\ \A i \in 1..Len(store["course"]) : Course(store["course"][i])
    /\ \A i \in 1..Len(store["timetable"]) : Timetable(store["timetable"][i])

====
